---------------------------- MODULE Spec2Model ----------------------------
(***************************************************************************)
(* Compliance analysis and clue selection of the sustainability word       *)
(* search: src/sustainability_project/main.py (SustainabilityAuditor),     *)
(* src/logicandprocessing/research.py and src/main.py (PDFScraper).        *)
(*                                                                         *)
(* A Python str is a sequence of one-character strings, so that substring  *)
(* tests, regular expressions, lower()/upper(), split() and len() are      *)
(* computed character by character, as the interpreter computes them.      *)
(***************************************************************************)
EXTENDS Integers, Sequences, FiniteSets, TLC

VARIABLES
    pc,            \* position of the running entry point
    taxonomy,      \* GRI_STANDARDS in effect (imported table)
    raw,           \* text returned by download_pdf_text
    clean,         \* clean_text(raw)
    clean2,        \* clean_text(clean_text(raw))
    segs,          \* split_into_sentences results kept by the normalizer run
    findings,      \* audit_report's list findings, at its return or at the raise
    processed,     \* standards whose loop body audit_report has completed
    error,         \* exception raised by the running entry point, or "none"
    url_i,         \* generate_game: index of the next url to download
    all_findings,  \* generate_game: findings of the reports audited so far
    todo,          \* generate_game: places of the shuffled list not yet visited
    final_clues,   \* generate_game: the clues selected so far
    seen_words,    \* generate_game: the words of the selected clues
    all_text,      \* generate_game_content: the cleaned reports, concatenated
    combined_missing_clues,  \* generate_game_content: one clue per report and missing topic
    found_clues,   \* generate_game_content: theme word -> (sentence, types) options
    final_output,  \* generate_game_content: the clues selected
    analysis,      \* analyze_gri_compliance: the three lists of its result
    used_pdfs,     \* game_state.json: state['used_pdfs']
    selected,      \* get_next_pdf: the url returned by the last call
    calls          \* get_next_pdf: calls made so far

auditVars == <<taxonomy, raw, clean, clean2, segs, findings, processed, error>>

gameVars == <<url_i, all_findings, todo, final_clues, seen_words>>

resVars == <<all_text, combined_missing_clues, found_clues, final_output>>

webVars == <<analysis, used_pdfs, selected, calls>>

vars == <<pc, auditVars, gameVars, resVars, webVars>>

-----------------------------------------------------------------------------
(* Characters *)

\* Python's \s and str.strip() whitespace (the ASCII ones that occur here)
WhitespaceChars == {" ", "\t", "\n"}

IsSpace(c) == c \in WhitespaceChars

\* Python's \d
DigitChars == {"0", "1", "2", "3", "4", "5", "6", "7", "8", "9"}

IsDigit(c) == c \in DigitChars

LowerLetters == <<"a","b","c","d","e","f","g","h","i","j","k","l","m","n","o","p","q","r","s","t","u","v","w","x","y","z">>

UpperLetters == <<"A","B","C","D","E","F","G","H","I","J","K","L","M","N","O","P","Q","R","S","T","U","V","W","X","Y","Z">>

Range(s) == {s[i] : i \in 1..Len(s)}

LowerOf == [c \in Range(UpperLetters) |-> LowerLetters[CHOOSE i \in 1..26 : UpperLetters[i] = c]]

UpperOf == [c \in Range(LowerLetters) |-> UpperLetters[CHOOSE i \in 1..26 : LowerLetters[i] = c]]

\* Python's \w : letters, digits and the underscore
IsWordChar(c) == c \in Range(LowerLetters) \cup Range(UpperLetters) \cup DigitChars \cup {"_"}

\* str.lower()
Lower(s) == SubSeq([i \in 1..Len(s) |-> IF s[i] \in DOMAIN LowerOf THEN LowerOf[s[i]] ELSE s[i]], 1, Len(s))

\* str.upper()
Upper(s) == SubSeq([i \in 1..Len(s) |-> IF s[i] \in DOMAIN UpperOf THEN UpperOf[s[i]] ELSE s[i]], 1, Len(s))

\* w in s
Contains(s, w) == \E i \in 0..(Len(s) - Len(w)) : SubSeq(s, i + 1, i + Len(w)) = w

\* s.startswith(w, i-1): w occurs in s at index i
OccursAt(s, w, i) == i >= 1 /\ i + Len(w) - 1 <= Len(s) /\ SubSeq(s, i, i + Len(w) - 1) = w

\* regex \b before index p: exactly one of s[p-1], s[p] is a word character
WordBoundary(s, p) ==
    (p > 1 /\ p - 1 <= Len(s) /\ IsWordChar(s[p - 1])) # (p >= 1 /\ p <= Len(s) /\ IsWordChar(s[p]))

\* \bWORD\b matches s at index i
WordAt(s, w, i) == OccursAt(s, w, i) /\ WordBoundary(s, i) /\ WordBoundary(s, i + Len(w))

\* re.search(r'\b' + w + r'\b', s)
HasWord(s, w) == \E i \in 1..Len(s) : WordAt(s, w, i)

MinOf(S) == CHOOSE x \in S : \A y \in S : x <= y

MaxOf(S) == CHOOSE x \in S : \A y \in S : x >= y

\* the elements of a set of places, in increasing order
SortedPlaces(S) == SubSeq([k \in 1..Cardinality(S) |->
                             CHOOSE x \in S : Cardinality({y \in S : y < x}) = k - 1],
                          1, Cardinality(S))

-----------------------------------------------------------------------------
(* Text normalizer: clean_text and split_into_sentences *)

KeepFlag(p) == p.keep

\* re.sub(r'\s+', ' ', text): every maximal run of whitespace becomes one space
SubWhitespace(s) ==
    LET marked == [i \in 1..Len(s) |->
                     [c    |-> IF IsSpace(s[i]) THEN " " ELSE s[i],
                      keep |-> ~IsSpace(s[i]) \/ i = 1 \/ ~IsSpace(s[i - 1])]]
        kept == SelectSeq(marked, KeepFlag)
    IN  SubSeq([i \in 1..Len(kept) |-> kept[i].c], 1, Len(kept))

\* str.strip()
Strip(s) ==
    LET solid == {i \in 1..Len(s) : ~IsSpace(s[i])}
    IN  IF solid = {} THEN <<>> ELSE SubSeq(s, MinOf(solid), MaxOf(solid))

\* The plausible slip: the collapsed text is returned without .strip()
clean_text_nostrip(s) == SubWhitespace(s)

clean_text(s) == Strip(SubWhitespace(s))

SentenceEnd == {".", "!", "?"}

\* last index of the whitespace run that starts at i
RunEnd(s, i) == CHOOSE j \in i..Len(s) :
                   /\ \A k \in i..j : IsSpace(s[k])
                   /\ (j = Len(s) \/ ~IsSpace(s[j + 1]))

\* re.split(r'(?<=[.!?])\s+', text) from index from on: a separator is a run of
\* whitespace whose first character follows a sentence terminator
RECURSIVE ReSplit(_, _)
ReSplit(s, from) ==
    LET starts == {i \in (from + 1)..Len(s) :
                     IsSpace(s[i]) /\ i > 1 /\ s[i - 1] \in SentenceEnd}
    IN  IF starts = {} THEN <<SubSeq(s, from, Len(s))>>
        ELSE LET i == MinOf(starts)
             IN  <<SubSeq(s, from, i - 1)>> \o ReSplit(s, RunEnd(s, i) + 1)

\* SustainabilityAuditor.split_into_sentences keeps len(s) > 30
AuditorMinLen == 30

\* research.split_into_sentences keeps len(s) > 20
ResearchMinLen == 20

LongerThan30(s) == Len(s) > AuditorMinLen

LongerThan20(s) == Len(s) > ResearchMinLen

StripAll(ss) == SubSeq([i \in 1..Len(ss) |-> Strip(ss[i])], 1, Len(ss))

split_into_sentences(text) == StripAll(SelectSeq(ReSplit(text, 1), LongerThan30))

research_split_into_sentences(text) == StripAll(SelectSeq(ReSplit(text, 1), LongerThan20))

-----------------------------------------------------------------------------
GameIdle == url_i = 0 /\ all_findings = <<>> /\ todo = {} /\ final_clues = <<>> /\ seen_words = {}

ResIdle == all_text = <<>> /\ combined_missing_clues = <<>> /\ found_clues = <<>> /\ final_output = <<>>

EmptySegs == [a1 |-> <<>>, a2 |-> <<>>, r1 |-> <<>>, r2 |-> <<>>]

EmptyAnalysis == [missing_standards |-> <<>>, misleading_content |-> <<>>, compliant_standards |-> <<>>]

WebIdle == analysis = EmptyAnalysis /\ used_pdfs = <<>> /\ selected = "none" /\ calls = 0

-----------------------------------------------------------------------------
(* Taxonomy and vocabulary (gri_standards.GRI_STANDARDS, BIAS_FLUFF_WORDS) *)

\* An ordered standard-code -> {keywords, required_metrics} table
GRI_STANDARDS == <<
    [code |-> <<"G","R","I"," ","3","0","3">>, keywords |-> <<<<"w","a","t","e","r">>, <<"e","f","f","l","u","e","n","t">>>>,
     required_metrics |-> <<<<"%">>, <<"l","i","t","e","r","s">>>>],
    [code |-> <<"G","R","I"," ","3","0","2">>, keywords |-> <<<<"e","n","e","r","g","y">>, <<"e","l","e","c","t","r","i","c","i","t","y">>>>,
     required_metrics |-> <<<<"m","w","h">>>>],
    [code |-> <<"G","R","I"," ","3","0","4">>, keywords |-> <<<<"b","i","o","d","i","v","e","r","s","i","t","y">>, <<"h","a","b","i","t","a","t">>>>,
     required_metrics |-> <<<<"h","e","c","t","a","r","e","s">>>>] >>

BIAS_FLUFF_WORDS == <<<<"p","r","o","u","d">>, <<"l","e","a","d","e","r">>>>

\* The same table with a standard whose required-metric set is empty
TaxonomyNoMetrics == [GRI_STANDARDS EXCEPT ![2].required_metrics = <<>>]

\* The same table with a standard whose keyword set is empty
TaxonomyNoKeywords == [GRI_STANDARDS EXCEPT ![2].keywords = <<>>]

Taxonomies == {GRI_STANDARDS, TaxonomyNoMetrics, TaxonomyNoKeywords}

-----------------------------------------------------------------------------
(* Clue templates of SustainabilityAuditor *)

OMISSION_TEMPLATES == <<
    <<"S","u","r","p","r","i","s","i","n","g","l","y",","," ","t","h","i","s"," ","r","e","p","o","r","t"," ","f","a","i","l","s"," ","t","o"," ","m","e","n","t","i","o","n"," ","_","_","_","_","_","_","_"," ","s","t","a","n","d","a","r","d","s"," ","s","i","g","n","i","f","i","c","a","n","t","l","y",".">>,
    <<"T","h","e"," ","a","u","d","i","t"," ","r","e","v","e","a","l","s"," ","a"," ","l","a","c","k"," ","o","f"," ","v","e","r","i","f","i","e","d"," ","d","a","t","a"," ","o","n"," ","_","_","_","_","_","_","_",".">>,
    <<"I","n","v","e","s","t","o","r","s"," ","l","o","o","k","i","n","g"," ","f","o","r"," ","_","_","_","_","_","_","_"," ","m","e","t","r","i","c","s"," ","w","i","l","l"," ","b","e"," ","d","i","s","a","p","p","o","i","n","t","e","d"," ","h","e","r","e",".">>,
    <<"U","n","l","i","k","e"," ","p","e","e","r","s",","," ","t","h","i","s"," ","c","o","m","p","a","n","y"," ","o","m","i","t","s"," ","s","t","a","n","d","a","r","d"," ","_","_","_","_","_","_","_"," ","d","i","s","c","l","o","s","u","r","e","s",".">>,
    <<"A"," ","k","e","y"," ","g","a","p"," ","i","n"," ","t","h","i","s"," ","r","e","p","o","r","t"," ","i","s"," ","t","h","e"," ","a","b","s","e","n","c","e"," ","o","f"," ","_","_","_","_","_","_","_"," ","d","a","t","a",".">> >>

BIAS_TEMPLATES == <<
    <<"T","h","e"," ","r","e","p","o","r","t"," ","s","u","b","j","e","c","t","i","v","e","l","y"," ","c","l","a","i","m","s"," ","t","o"," ","b","e"," ","'","_","_","_","_","_","_","_","'"," ","w","i","t","h","o","u","t"," ","d","a","t","a",".">>,
    <<"M","a","r","k","e","t"," ","b","i","a","s"," ","d","e","t","e","c","t","e","d",":"," ","u","s","i","n","g"," ","t","e","r","m","s"," ","l","i","k","e"," ","'","_","_","_","_","_","_","_","'"," ","l","a","c","k","s"," ","p","r","o","o","f",".">>,
    <<"T","h","e"," ","t","e","x","t"," ","r","e","l","i","e","s"," ","o","n"," ","f","l","u","f","f"," ","w","o","r","d","s"," ","l","i","k","e"," ","'","_","_","_","_","_","_","_","'"," ","i","n","s","t","e","a","d"," ","o","f"," ","f","a","c","t","s",".">>,
    <<"A","m","b","i","g","u","o","u","s"," ","l","a","n","g","u","a","g","e"," ","f","o","u","n","d",":"," ","d","e","s","c","r","i","b","i","n","g"," ","e","f","f","o","r","t","s"," ","a","s"," ","'","_","_","_","_","_","_","_","'"," ","i","s"," ","v","a","g","u","e",".">>,
    <<"B","i","a","s"," ","A","l","e","r","t",":"," ","T","h","e"," ","c","o","m","p","a","n","y"," ","d","e","s","c","r","i","b","e","s"," ","i","t","s","e","l","f"," ","a","s"," ","'","_","_","_","_","_","_","_","'"," ","s","u","b","j","e","c","t","i","v","e","l","y",".">> >>

FACT_TEMPLATES == <<
    <<"T","h","e"," ","r","e","p","o","r","t"," ","c","i","t","e","s"," ","a"," ","m","e","t","r","i","c"," ","o","f"," ","{","v","a","l","}"," ","r","e","g","a","r","d","i","n","g"," ","_","_","_","_","_","_","_",".">>,
    <<"O","f","f","i","c","i","a","l"," ","d","a","t","a"," ","s","h","o","w","s"," ","{","v","a","l","}"," ","r","e","l","a","t","e","d"," ","t","o"," ","_","_","_","_","_","_","_"," ","u","s","a","g","e",".">>,
    <<"T","h","e","y"," ","d","i","s","c","l","o","s","e","d"," ","{","v","a","l","}"," ","i","n"," ","t","h","e","i","r"," ","_","_","_","_","_","_","_"," ","a","c","c","o","u","n","t","i","n","g",".">>,
    <<"A"," ","v","e","r","i","f","i","e","d"," ","f","i","g","u","r","e"," ","o","f"," ","{","v","a","l","}"," ","w","a","s"," ","r","e","p","o","r","t","e","d"," ","f","o","r"," ","_","_","_","_","_","_","_",".">>,
    <<"A","u","d","i","t"," ","c","o","n","f","i","r","m","a","t","i","o","n",":"," ","{","v","a","l","}"," ","l","i","n","k","e","d"," ","t","o"," ","_","_","_","_","_","_","_"," ","p","e","r","f","o","r","m","a","n","c","e",".">> >>

\* outcomes of random.choice over a template list that are explored
MaxTemplate == 2

\* random.choice(templates)
TemplateChoices(templates) == {templates[i] : i \in 1..(IF Len(templates) < MaxTemplate THEN Len(templates) ELSE MaxTemplate)}

ValField == <<"{","v","a","l","}">>

\* template.format(val=val_str)
Format(template, val) ==
    LET at == {i \in 1..Len(template) : OccursAt(template, ValField, i)}
    IN  IF at = {} THEN template
        ELSE LET i == MinOf(at)
             IN  SubSeq(template, 1, i - 1) \o val
                   \o SubSeq(template, i + Len(ValField), Len(template))

NotApplicable == <<"N","/","A">>

-----------------------------------------------------------------------------
(* Fact extractor: SustainabilityAuditor.extract_value_context *)

\* number of digits at s[i], s[i+1], ...
DigitRun(s, i) ==
    IF i > Len(s) \/ ~IsDigit(s[i]) THEN 0
    ELSE MaxOf({d \in 1..(Len(s) - i + 1) : \A k \in i..(i + d - 1) : IsDigit(s[k])})

SpaceRun(s, i) ==
    IF i > Len(s) \/ ~IsSpace(s[i]) THEN 0
    ELSE MaxOf({d \in 1..(Len(s) - i + 1) : \A k \in i..(i + d - 1) : IsSpace(s[k])})

\* \s*METRIC at index i, greedy with backtracking: index after the match, or 0
MatchUnit(s, i, metric) ==
    LET ok == {k \in 0..SpaceRun(s, i) : OccursAt(s, metric, i + k)}
    IN  IF ok = {} THEN 0 ELSE i + MaxOf(ok) + Len(metric)

\* (?:\.\d+)?\s*METRIC at index i
MatchFraction(s, i, metric) ==
    LET ok == IF i <= Len(s) /\ s[i] = "."
              THEN {d \in 1..DigitRun(s, i + 1) : MatchUnit(s, i + 1 + d, metric) # 0}
              ELSE {}
    IN  IF ok = {} THEN MatchUnit(s, i, metric)
        ELSE MatchUnit(s, i + 1 + MaxOf(ok), metric)

\* (?:,\d+)*(?:\.\d+)?\s*METRIC at index i
RECURSIVE MatchGroups(_, _, _)
MatchGroups(s, i, metric) ==
    LET ok == IF i <= Len(s) /\ s[i] = ","
              THEN {d \in 1..DigitRun(s, i + 1) : MatchGroups(s, i + 1 + d, metric) # 0}
              ELSE {}
    IN  IF ok = {} THEN MatchFraction(s, i, metric)
        ELSE MatchGroups(s, i + 1 + MaxOf(ok), metric)

\* \d+(?:,\d+)*(?:\.\d+)?\s*METRIC at index i
MatchNumber(s, i, metric) ==
    LET ok == {d \in 1..DigitRun(s, i) : MatchGroups(s, i + d, metric) # 0}
    IN  IF ok = {} THEN 0 ELSE MatchGroups(s, i + MaxOf(ok), metric)

\* re.search(pattern, s).group(1), or <<>> when there is no match
SearchValue(s, metric) ==
    LET at == {i \in 1..Len(s) : MatchNumber(s, i, metric) # 0}
    IN  IF at = {} THEN <<>>
        ELSE SubSeq(s, MinOf(at), MatchNumber(s, MinOf(at), metric) - 1)

None == [found |-> FALSE, val |-> <<>>, kw |-> <<>>]

\* The plausible slip: the last keyword present is reported instead of the first
extract_value_context_lastkw(sentence, keywords, metrics) ==
    LET sent_lower == Lower(sentence)
        kws == {k \in 1..Len(keywords) : Contains(sent_lower, keywords[k])}
        ms == {m \in 1..Len(metrics) : SearchValue(sent_lower, metrics[m]) # <<>>}
    IN  IF kws = {} \/ keywords[MaxOf(kws)] = <<>> \/ ms = {} THEN None
        ELSE [found |-> TRUE, val |-> SearchValue(sent_lower, metrics[MinOf(ms)]),
              kw |-> keywords[MaxOf(kws)]]

extract_value_context(sentence, keywords, metrics) ==
    LET sent_lower == Lower(sentence)
        kws == {k \in 1..Len(keywords) : Contains(sent_lower, keywords[k])}
        ms == {m \in 1..Len(metrics) : SearchValue(sent_lower, metrics[m]) # <<>>}
    IN  IF kws = {} \/ keywords[MinOf(kws)] = <<>> \/ ms = {} THEN None
        ELSE [found |-> TRUE, val |-> SearchValue(sent_lower, metrics[MinOf(ms)]),
              kw |-> keywords[MinOf(kws)]]

-----------------------------------------------------------------------------
(* Finding aggregator: SustainabilityAuditor.audit_report *)

AnyIn(words, s) == \E k \in 1..Len(words) : Contains(s, words[k])

HasDigit(s) == \E i \in 1..Len(s) : IsDigit(s[i])

Returned(fs) == [error |-> "none", findings |-> fs, processed |-> 0]

\* One iteration of the loop over GRI_STANDARDS.items(): the findings it may append
\* (random.shuffle of the relevant sentences, random.choice of the template)
StandardOutcomes(data, text_lower, sentences) ==
    LET found_keywords == AnyIn(data.keywords, text_lower)
        relevant == {i \in 1..Len(sentences) : AnyIn(data.keywords, Lower(sentences[i]))}
        withFact == {i \in relevant :
                       extract_value_context(sentences[i], data.keywords,
                                             data.required_metrics).found}
    IN  IF found_keywords
        THEN IF withFact = {} THEN {Returned(<<>>)}
             ELSE {Returned(<<[type |-> "FACT", code |-> data.code,
                    word |-> Upper(extract_value_context(sentences[i], data.keywords,
                                                         data.required_metrics).kw),
                    clue |-> Format(t, extract_value_context(sentences[i], data.keywords,
                                                            data.required_metrics).val),
                    original |-> sentences[i]]>>) :
                   i \in withFact, t \in TemplateChoices(FACT_TEMPLATES)}
        ELSE IF data.keywords = <<>>
             THEN {[error |-> "IndexError", findings |-> <<>>, processed |-> 0]}
             ELSE {Returned(<<[type |-> "OMISSION", code |-> data.code,
                    word |-> Upper(data.keywords[1]), clue |-> t,
                    original |-> NotApplicable]>>) :
                   t \in TemplateChoices(OMISSION_TEMPLATES)}

\* The loop from standard k on; an exception ends it with the count of the
\* standards already processed
RECURSIVE StandardsLoop(_, _, _, _)
StandardsLoop(tax, k, text_lower, sentences) ==
    IF k > Len(tax) THEN {[error |-> "none", findings |-> <<>>, processed |-> 0]}
    ELSE LET heads == StandardOutcomes(tax[k], text_lower, sentences)
             tails == StandardsLoop(tax, k + 1, text_lower, sentences)
         IN  {IF h.error # "none" THEN h
              ELSE [error |-> t.error, findings |-> h.findings \o t.findings,
                    processed |-> t.processed + 1] : h \in heads, t \in tails}

MarketingCode == <<"M","A","R","K","E","T","I","N","G">>

\* Step 2 of audit_report: at most one BIAS finding
BiasOutcomes(sentences) ==
    LET bias_sentences == {i \in 1..Len(sentences) :
                             AnyIn(BIAS_FLUFF_WORDS, Lower(sentences[i]))
                             /\ ~HasDigit(sentences[i])}
    IN  IF bias_sentences = {} THEN {<<>>}
        ELSE {<<[type |-> "BIAS", code |-> MarketingCode,
                 word |-> Upper(BIAS_FLUFF_WORDS[MinOf({w \in 1..Len(BIAS_FLUFF_WORDS) :
                                   Contains(Lower(sentences[i]), BIAS_FLUFF_WORDS[w])})]),
                 clue |-> t, original |-> sentences[i]]>> :
              i \in bias_sentences, t \in TemplateChoices(BIAS_TEMPLATES)}

\* The set of results audit_report(text, report_name) may produce
audit_report(text, tax) ==
    LET text_lower == Lower(text)
        sentences == split_into_sentences(text)
        loop == StandardsLoop(tax, 1, text_lower, sentences)
        bias == BiasOutcomes(sentences)
    IN  {IF o.error # "none" THEN o
         ELSE [o EXCEPT !.findings = o.findings \o b] : o \in loop, b \in bias}

-----------------------------------------------------------------------------
(* Report fragments the downloads are composed of *)

\* a water fact; "effluent" comes first in the sentence, "water" first in the table
FragWaterFact == <<"W","e"," ","c","u","t"," ","e","f","f","l","u","e","n","t"," ","a","n","d"," ","W","a","t","e","r"," ","u","s","e"," ","b","y"," ","4","0","%"," ","t","h","i","s"," ","y","e","a","r",".">>

\* marketing language without a digit, both vocabulary terms
FragProud == <<"W","e"," ","a","r","e"," ","p","r","o","u","d"," ","l","e","a","d","e","r","s"," ","i","n"," ","s","u","s","t","a","i","n","a","b","i","l","i","t","y",".">>

\* "water" only inside "wastewater"; a space between number and unit
FragWastewater == <<"O","u","r"," ","w","a","s","t","e","w","a","t","e","r"," ","v","o","l","u","m","e"," ","f","e","l","l"," ","b","y"," ","1","2"," ","l","i","t","e","r","s",".">>

\* the code of a standard, and an energy fact with a grouped, fractional number
FragGriCode == <<"S","e","e"," ","G","R","I"," ","3","0","2",":"," ","e","n","e","r","g","y"," ","u","s","e"," ","w","a","s"," ","1",",","2","0","0",".","5"," ","M","W","h"," ","i","n"," ","t","o","t","a","l",".">>

\* a keyword in a fragment too short to be a sentence
FragShortKeyword == <<"W","a","t","e","r"," ","m","a","t","t","e","r","s",".">>

\* too short to be a sentence, no keyword
FragShort == <<"H","e","l","l","o",".">>

\* "leader" only inside "leadership", no digit
FragLeadership == <<"O","u","r"," ","l","e","a","d","e","r","s","h","i","p"," ","i","s"," ","s","t","r","o","n","g"," ","a","n","d"," ","v","e","r","y"," ","b","o","l","d",".">>

\* a keyword without its metric, and a digit that rules out bias
FragHabitat == <<"O","u","r"," ","p","r","o","u","d"," ","t","e","a","m"," ","p","r","o","t","e","c","t","s"," ","e","v","e","r","y"," ","h","a","b","i","t","a","t"," ","i","n"," ","2","0","2","4",".">>

\* one keyword and both metrics of a standard, the second-declared metric first
FragTwoMetrics == <<"E","f","f","l","u","e","n","t"," ","f","e","l","l"," ","b","y"," ","1","2"," ","l","i","t","e","r","s",","," ","o","r"," ","4","0","%"," ","o","f"," ","u","s","e",".">>

\* a metric of a standard in a sentence without any keyword
FragGrowth == <<"R","e","v","e","n","u","e"," ","g","r","e","w"," ","b","y"," ","4","0","%"," ","i","n"," ","t","h","e"," ","l","a","s","t"," ","y","e","a","r",".">>

AuditFragments == <<FragWaterFact, FragProud, FragWastewater, FragGriCode,
                    FragShortKeyword, FragShort, FragLeadership, FragHabitat,
                    FragTwoMetrics, FragGrowth>>

\* most pages of a downloaded report
MaxFrags == 2

\* download_pdf_text: text += extracted + "\n" for every page
RECURSIVE Pages(_)
Pages(ids) == IF ids = <<>> THEN <<>>
              ELSE AuditFragments[Head(ids)] \o <<"\n">> \o Pages(Tail(ids))

\* the reports: up to MaxFrags different pages, in the order of AuditFragments
AuditTexts ==
    {Pages(SortedPlaces(S)) :
        S \in {T \in SUBSET (1..Len(AuditFragments)) : Cardinality(T) <= MaxFrags}}

-----------------------------------------------------------------------------
(* Analysis of one report: download, clean_text, audit_report *)

InitAudit ==
    /\ pc = "downloaded"
    /\ raw \in AuditTexts
    /\ taxonomy \in Taxonomies
    /\ clean = <<>>
    /\ clean2 = <<>>
    /\ segs = EmptySegs
    /\ findings = <<>>
    /\ processed = 0
    /\ error = "none"
    /\ GameIdle
    /\ ResIdle
    /\ WebIdle

CleanText ==
    /\ pc = "downloaded"
    /\ clean' = clean_text(raw)
    /\ pc' = "cleaned"
    /\ UNCHANGED <<taxonomy, raw, clean2, segs, findings, processed, error, gameVars, resVars>>
    /\ UNCHANGED webVars

\* generate_game: "if clean:" skips a report without text
SkipEmpty ==
    /\ pc = "cleaned"
    /\ clean = <<>>
    /\ pc' = "skipped"
    /\ UNCHANGED <<taxonomy, raw, clean, clean2, segs, findings, processed, error, gameVars, resVars>>
    /\ UNCHANGED webVars

AuditReport ==
    /\ pc = "cleaned"
    /\ clean # <<>>
    /\ \E o \in audit_report(clean, taxonomy) :
          /\ findings' = o.findings
          /\ processed' = o.processed
          /\ error' = o.error
    /\ pc' = "audited"
    /\ UNCHANGED <<taxonomy, raw, clean, clean2, segs, gameVars, resVars>>
    /\ UNCHANGED webVars

NextAudit == CleanText \/ SkipEmpty \/ AuditReport

SpecAudit == InitAudit /\ [][NextAudit]_vars

-----------------------------------------------------------------------------
(* C4 - C7: properties of the findings of one analysis *)

Malformed(tax) == \E k \in 1..Len(tax) : tax[k].keywords = <<>> \/ tax[k].required_metrics = <<>>

FindingsOf(type, code) == {i \in 1..Len(findings) : findings[i].type = type /\ findings[i].code = code}

\* C4: a standard whose code occurs (case-insensitively) in the document gets
\* exactly one EXPLICIT_MENTION finding and no FACT or OMISSION finding.
\* (Stated for the well-formed taxonomy, so that nothing rests on C7.)
C4_ExplicitMentionOnly ==
    (pc = "audited" /\ ~Malformed(taxonomy)) =>
        \A k \in 1..Len(taxonomy) :
            Contains(Lower(clean), Lower(taxonomy[k].code)) =>
                /\ Cardinality(FindingsOf("EXPLICIT_MENTION", taxonomy[k].code)) = 1
                /\ FindingsOf("FACT", taxonomy[k].code) = {}
                /\ FindingsOf("OMISSION", taxonomy[k].code) = {}

\* C5: the anchor word of every FACT and BIAS finding is a case-insensitive
\* whole-word match in its evidence sentence, and every OMISSION finding carries
\* the evidence "N/A".  (Stated for the well-formed taxonomy.)
C5_AnchorIsWholeWord ==
    (pc = "audited" /\ ~Malformed(taxonomy)) =>
        \A i \in 1..Len(findings) :
            IF findings[i].type = "OMISSION"
            THEN findings[i].original = NotApplicable
            ELSE HasWord(Lower(findings[i].original), Lower(findings[i].word))

\* C6: a document without a qualifying sentence is analysed to the empty list of
\* findings, without an exception.  (Stated for the well-formed taxonomy: with
\* a malformed one the analysis fails as well, see C7.)
C6_NoSentencesNoFindings ==
    (pc = "audited" /\ ~Malformed(taxonomy) /\ split_into_sentences(clean) = <<>>) =>
        (error = "none" /\ findings = <<>>)

\* C7: with a standard whose keyword or required-metric set is empty, analysis
\* ends in an error raised before any standard is processed, with no finding.
C7_MalformedTaxonomyRefused ==
    (pc = "audited" /\ Malformed(taxonomy)) =>
        (error # "none" /\ processed = 0 /\ findings = <<>>)

-----------------------------------------------------------------------------
(* C11: the coverage verdict of a standard and its OMISSION finding *)

\* keywords_found / metrics_found of PDFScraper.analyze_gri_compliance: the
\* entries of a list that occur in the lowercased text, in declaration order
FoundIn(words, pdf_lower) ==
    LET at == {k \in 1..Len(words) : Contains(pdf_lower, Lower(words[k]))}
        order == SortedPlaces(at)
    IN  SubSeq([j \in 1..Len(order) |-> words[order[j]]], 1, Len(order))

\* The matcher's verdict for one standard and one lowercased text
CoverageVerdict(standard, pdf_lower) ==
    IF FoundIn(standard.keywords, pdf_lower) = <<>> THEN "NONE"
    ELSE IF FoundIn(standard.required_metrics, pdf_lower) = <<>> THEN "KEYWORD_ONLY"
    ELSE "KEYWORD_AND_METRIC"

\* C11: every standard whose verdict is KEYWORD_ONLY or NONE gets exactly one
\* OMISSION finding, and its word is the standard's first keyword in upper case.
\* (Stated for the well-formed taxonomy.)
C11_NegativeVerdictOmission ==
    (pc = "audited" /\ ~Malformed(taxonomy)) =>
        \A k \in 1..Len(taxonomy) :
            CoverageVerdict(taxonomy[k], Lower(clean)) \in {"KEYWORD_ONLY", "NONE"} =>
                /\ Cardinality(FindingsOf("OMISSION", taxonomy[k].code)) = 1
                /\ \A i \in FindingsOf("OMISSION", taxonomy[k].code) :
                      findings[i].word = Upper(taxonomy[k].keywords[1])

-----------------------------------------------------------------------------
(* C12: the FACT finding of a standard *)

KeywordsIn(standard, s) == {k \in 1..Len(standard.keywords) : Contains(Lower(s), standard.keywords[k])}

\* metrics of the standard that follow a number in s
MetricsIn(standard, s) ==
    {m \in 1..Len(standard.required_metrics) :
        SearchValue(Lower(s), standard.required_metrics[m]) # <<>>}

\* qualifying sentences with a keyword of the standard and a number followed by a metric
FactSentences(standard, text) ==
    {s \in Range(split_into_sentences(text)) :
        KeywordsIn(standard, s) # {} /\ MetricsIn(standard, s) # {}}

\* C12: a standard gets at most one FACT finding; exactly one when its verdict is
\* KEYWORD_AND_METRIC and some qualifying sentence holds a keyword and a number
\* followed by a metric, none when no sentence holds both; the word is the first
\* declared keyword present in the chosen sentence and the value the match of the
\* first declared metric that matches.  (Stated for the well-formed taxonomy.)
C12_OneFactPerStandard ==
    (pc = "audited" /\ ~Malformed(taxonomy)) =>
        \A k \in 1..Len(taxonomy) :
            LET facts == FindingsOf("FACT", taxonomy[k].code)
                able == FactSentences(taxonomy[k], clean)
            IN  /\ Cardinality(facts) <= 1
                /\ (CoverageVerdict(taxonomy[k], Lower(clean)) = "KEYWORD_AND_METRIC" /\ able # {})
                      => Cardinality(facts) = 1
                /\ able = {} => facts = {}
                /\ \A i \in facts :
                      /\ findings[i].original \in able
                      /\ findings[i].word =
                            Upper(taxonomy[k].keywords[MinOf(KeywordsIn(taxonomy[k], findings[i].original))])
                      /\ \E t \in Range(FACT_TEMPLATES) :
                            findings[i].clue =
                               Format(t, SearchValue(Lower(findings[i].original),
                                         taxonomy[k].required_metrics[
                                            MinOf(MetricsIn(taxonomy[k], findings[i].original))]))

\* C12 witness: two qualifying sentences could give the fact of a standard; the one
\* chosen holds two of its keywords, and one FACT finding was emitted
C12_Witness ==
    /\ pc = "audited"
    /\ ~Malformed(taxonomy)
    /\ \E k \in 1..Len(taxonomy) :
          /\ Cardinality(FactSentences(taxonomy[k], clean)) >= 2
          /\ \E i \in FindingsOf("FACT", taxonomy[k].code) :
                Cardinality(KeywordsIn(taxonomy[k], findings[i].original)) >= 2

-----------------------------------------------------------------------------
(* C13: the BIAS finding *)

\* vocabulary terms with a whole-word, case-insensitive match in s
WholeWordTerms(s) ==
    {w \in 1..Len(BIAS_FLUFF_WORDS) : HasWord(Lower(s), Lower(BIAS_FLUFF_WORDS[w]))}

\* C13: the evidence sentence of every BIAS finding holds a whole-word match of a
\* vocabulary term and no digit, and the finding's word is the first term, in
\* declaration order, that matches the sentence.  (Stated for the well-formed
\* taxonomy.)
C13_BiasWholeWordNoDigit ==
    (pc = "audited" /\ ~Malformed(taxonomy)) =>
        \A i \in 1..Len(findings) :
            findings[i].type = "BIAS" =>
                /\ WholeWordTerms(findings[i].original) # {}
                /\ ~HasDigit(findings[i].original)
                /\ findings[i].word =
                      Upper(BIAS_FLUFF_WORDS[MinOf(WholeWordTerms(findings[i].original))])

-----------------------------------------------------------------------------
(* Clue selection: SustainabilityAuditor.generate_game *)

\* len(DEFAULT_URLS), in main.py and in research.py
NumUrls == 2

\* the loop stops at five clues
TargetCount == 5

\* a clue of more than 15 words is passed over
MaxClueWords == 15

\* len(clue.split()): the maximal runs of non-whitespace characters
WordCount(s) == Cardinality({i \in 1..Len(s) : ~IsSpace(s[i]) /\ (i = 1 \/ IsSpace(s[i - 1]))})

FragEffluent == <<"E","f","f","l","u","e","n","t"," ","d","i","s","c","h","a","r","g","e"," ","f","e","l","l"," ","b","y"," ","1","2"," ","l","i","t","e","r","s"," ","o","v","e","r","a","l","l",".">>

FragElectricity == <<"E","l","e","c","t","r","i","c","i","t","y"," ","d","e","m","a","n","d"," ","w","a","s"," ","5","0"," ","M","W","h"," ","i","n"," ","t","h","e"," ","y","e","a","r",".">>

FragShortHabitat == <<"H","a","b","i","t","a","t"," ","m","a","t","t","e","r","s",".">>

\* the report behind the first url: marketing language only
ReportA == FragProud \o <<"\n">>

\* the report behind the second url: two facts, the third topic only named
ReportB == FragEffluent \o <<"\n">> \o FragElectricity \o <<"\n">> \o FragShortHabitat \o <<"\n">>

\* download_pdf_text(url): the text of the report, or "" after any exception
Downloads(i) == {<<>>, IF i = 1 THEN ReportA ELSE ReportB}

InitGame ==
    /\ pc = "fetching"
    /\ taxonomy = GRI_STANDARDS
    /\ raw = <<>>
    /\ clean = <<>>
    /\ clean2 = <<>>
    /\ segs = EmptySegs
    /\ findings = <<>>
    /\ processed = 0
    /\ error = "none"
    /\ url_i = 1
    /\ all_findings = <<>>
    /\ todo = {}
    /\ final_clues = <<>>
    /\ seen_words = {}
    /\ ResIdle
    /\ WebIdle

\* One iteration of "for i, url in enumerate(urls)": download, clean_text, and,
\* when there is text, audit_report and all_findings.extend
ProcessUrl ==
    /\ pc = "fetching"
    /\ url_i <= NumUrls
    /\ \E text \in Downloads(url_i) :
          /\ raw' = text
          /\ clean' = clean_text(text)
          /\ IF clean_text(text) = <<>>
             THEN /\ UNCHANGED <<findings, processed, error, all_findings>>
                  /\ pc' = pc
                  /\ url_i' = url_i + 1
             ELSE \E o \in audit_report(clean_text(text), taxonomy) :
                     /\ findings' = o.findings
                     /\ processed' = o.processed
                     /\ error' = o.error
                     /\ IF o.error = "none"
                        THEN /\ all_findings' = all_findings \o o.findings
                             /\ pc' = pc
                             /\ url_i' = url_i + 1
                        ELSE /\ pc' = "raised"
                             /\ UNCHANGED <<all_findings, url_i>>
    /\ UNCHANGED <<taxonomy, clean2, segs, todo, final_clues, seen_words, resVars>>
    /\ UNCHANGED webVars

\* final_clues = [], seen_words = set(), random.shuffle(all_findings): the
\* shuffled order is drawn place by place, as the loop visits it
ShuffleFindings ==
    /\ pc = "fetching"
    /\ url_i > NumUrls
    /\ todo' = 1..Len(all_findings)
    /\ final_clues' = <<>>
    /\ seen_words' = {}
    /\ pc' = "selecting"
    /\ UNCHANGED <<auditVars, url_i, all_findings, resVars>>
    /\ UNCHANGED webVars

\* One iteration of "for f in all_findings" that does not break
SelectNext ==
    /\ pc = "selecting"
    /\ todo # {}
    /\ Len(final_clues) < TargetCount
    /\ \E k \in todo :
          /\ todo' = todo \ {k}
          /\ IF all_findings[k].word \in seen_words
                \/ WordCount(all_findings[k].clue) > MaxClueWords
             THEN UNCHANGED <<final_clues, seen_words>>
             ELSE /\ final_clues' = Append(final_clues, all_findings[k])
                  /\ seen_words' = seen_words \cup {all_findings[k].word}
    /\ UNCHANGED <<pc, auditVars, url_i, all_findings, resVars>>
    /\ UNCHANGED webVars

\* The loop ends: the list is exhausted or five clues are selected
SelectEnd ==
    /\ pc = "selecting"
    /\ (todo = {} \/ Len(final_clues) >= TargetCount)
    /\ pc' = "printed"
    /\ UNCHANGED <<auditVars, gameVars, resVars>>
    /\ UNCHANGED webVars

NextGame == ProcessUrl \/ ShuffleFindings \/ SelectNext \/ SelectEnd

SpecGame == InitGame /\ [][NextGame]_vars

-----------------------------------------------------------------------------
(* research.py: tables *)

THEME_WORDS == <<<<"C","A","R","B","O","N">>, <<"E","M","I","S","S","I","O","N","S">>, <<"W","A","T","E","R">>, <<"E","N","E","R","G","Y">>, <<"W","A","S","T","E">>,
                 <<"C","L","I","M","A","T","E">>, <<"R","E","N","E","W","A","B","L","E">>, <<"N","E","T","-","Z","E","R","O">>, <<"B","I","O","D","I","V","E","R","S","I","T","Y">>, <<"C","I","R","C","U","L","A","R">>>>

BIAS_INDICATORS == <<<<"p","r","o","u","d">>, <<"l","e","a","d","e","r">>, <<"c","o","m","m","i","t","t","e","d">>, <<"v","i","s","i","o","n">>, <<"b","e","l","i","e","v","e">>, <<"d","e","d","i","c","a","t","i","o","n">>,
                     <<"b","e","s","t">>, <<"f","o","r","e","f","r","o","n","t">>, <<"i","n","n","o","v","a","t","i","v","e">>, <<"u","n","i","q","u","e">>, <<"e","x","c","e","l","l","e","n","c","e">>>>

STANDARD_CHECKLIST == <<
    [topic |-> <<"B","I","O","D","I","V","E","R","S","I","T","Y">>,
     keywords |-> <<<<"b","i","o","d","i","v","e","r","s","i","t","y">>, <<"s","p","e","c","i","e","s">>, <<"h","a","b","i","t","a","t">>, <<"e","c","o","s","y","s","t","e","m">>, <<"n","a","t","u","r","e">>>>],
    [topic |-> <<"H","U","M","A","N"," ","R","I","G","H","T","S">>,
     keywords |-> <<<<"h","u","m","a","n"," ","r","i","g","h","t","s">>, <<"f","o","r","c","e","d"," ","l","a","b","o","r">>, <<"c","h","i","l","d"," ","l","a","b","o","r">>, <<"t","r","a","f","f","i","c","k","i","n","g">>, <<"m","o","d","e","r","n"," ","s","l","a","v","e","r","y">>>>],
    [topic |-> <<"S","C","O","P","E"," ","3">>,
     keywords |-> <<<<"s","c","o","p","e"," ","3">>, <<"i","n","d","i","r","e","c","t"," ","e","m","i","s","s","i","o","n","s">>, <<"s","u","p","p","l","y"," ","c","h","a","i","n"," ","e","m","i","s","s","i","o","n","s">>, <<"v","a","l","u","e"," ","c","h","a","i","n">>>>],
    [topic |-> <<"W","A","T","E","R"," ","R","E","C","Y","C","L","I","N","G">>,
     keywords |-> <<<<"w","a","t","e","r"," ","r","e","c","y","c","l","i","n","g">>, <<"r","e","c","y","c","l","e","d"," ","w","a","t","e","r">>, <<"w","a","t","e","r"," ","r","e","u","s","e">>, <<"e","f","f","l","u","e","n","t">>>>],
    [topic |-> <<"G","E","N","D","E","R"," ","P","A","Y">>,
     keywords |-> <<<<"g","e","n","d","e","r"," ","p","a","y">>, <<"p","a","y"," ","g","a","p">>, <<"e","q","u","a","l"," ","p","a","y">>, <<"r","e","m","u","n","e","r","a","t","i","o","n">>>>] >>

Blank == <<"_","_","_","_","_","_","_">>

MissingClueText == <<"O","n","e"," ","a","n","a","l","y","s","e","d"," ","r","e","p","o","r","t"," ","f","a","i","l","e","d"," ","t","o"," ","s","i","g","n","i","f","i","c","a","n","t","l","y"," ","m","e","n","t","i","o","n"," ","_","_","_","_","_","_","_"," ","s","t","a","n","d","a","r","d","s",".">>

MissingType == <<"M","I","S","S","I","N","G"," ","S","T","A","N","D","A","R","D">>

\* the elements of a set of integers, in increasing order
Sorted(S) == SubSeq([k \in 1..Cardinality(S) |->
                        CHOOSE x \in S : Cardinality({y \in S : y < x}) = k - 1],
                    1, Cardinality(S))

\* re.search(r'\d+%|\$\d+|\d{4}', sentence)
HasNumber(s) ==
    \E i \in 1..Len(s) :
        \/ IsDigit(s[i]) /\ i < Len(s) /\ s[i + 1] = "%"
        \/ s[i] = "$" /\ i < Len(s) /\ IsDigit(s[i + 1])
        \/ i + 3 <= Len(s) /\ \A k \in i..(i + 3) : IsDigit(s[k])

get_sentence_type(sentence) ==
    (IF HasNumber(sentence) THEN <<<<"F","A","C","T">>>> ELSE <<>>)
    \o (IF AnyIn(BIAS_INDICATORS, Lower(sentence)) THEN <<<<"B","I","A","S">>>> ELSE <<>>)

\* ", ".join(types)
JoinTypes(types) ==
    IF types = <<>> THEN <<>>
    ELSE IF Len(types) = 1 THEN types[1]
    ELSE types[1] \o <<","," ">> \o types[2]

\* find_missing_standards(text): the topics none of whose keywords is in the text
find_missing_standards(text) ==
    LET missing == {t \in 1..Len(STANDARD_CHECKLIST) :
                      ~AnyIn(STANDARD_CHECKLIST[t].keywords, Lower(text))}
        order == Sorted(missing)
    IN  SubSeq([k \in 1..Len(order) |-> STANDARD_CHECKLIST[order[k]].topic], 1, Len(order))

MissingClue(topic) ==
    [word |-> topic, clue |-> MissingClueText, types |-> MissingType, original |-> NotApplicable]

\* The scan "for sentence in sentences: for word in THEME_WORDS": found_clues as the
\* list of its (word, options) items in insertion order
ScanSentences(sentences) ==
    LET nw == Len(THEME_WORDS)
        hit(si, wi) == /\ HasWord(Upper(sentences[si]), THEME_WORDS[wi])
                       /\ get_sentence_type(sentences[si]) # <<>>
        hits == {<<si, wi>> \in (1..Len(sentences)) \X (1..nw) : hit(si, wi)}
        words == {h[2] : h \in hits}
        first(wi) == MinOf({(h[1] - 1) * nw + h[2] : h \in {g \in hits : g[2] = wi}})
        keys == Sorted({first(wi) : wi \in words})
        wordAt(k) == ((keys[k] - 1) % nw) + 1
        sents(wi) == Sorted({h[1] : h \in {g \in hits : g[2] = wi}})
    IN  SubSeq([k \in 1..Len(keys) |->
                 [word |-> THEME_WORDS[wordAt(k)],
                  options |-> SubSeq([j \in 1..Len(sents(wordAt(k))) |->
                                 [sentence |-> sentences[sents(wordAt(k))[j]],
                                  types |-> get_sentence_type(sentences[sents(wordAt(k))[j]])]],
                               1, Len(sents(wordAt(k))))]],
               1, Len(keys))

\* re.sub(r'\b' + word + r'\b', "_______", sentence, flags=re.IGNORECASE) from
\* index from on: the matches are replaced from left to right
RECURSIVE SubWord(_, _, _)
SubWord(s, word, from) ==
    LET at == {i \in from..Len(s) : WordAt(Lower(s), Lower(word), i)}
    IN  IF at = {} \/ word = <<>> THEN SubSeq(s, from, Len(s))
        ELSE SubSeq(s, from, MinOf(at) - 1) \o Blank \o SubWord(s, word, MinOf(at) + Len(word))

\* a sentence of fewer than 200 characters is a short option
MaxSentenceLen == 200

\* the first occurrence of every word of a list, in order (the keys of a dict)
RECURSIVE Keys(_)
Keys(ws) == IF ws = <<>> THEN <<>>
            ELSE LET rest == Keys(SubSeq(ws, 1, Len(ws) - 1))
                 IN  IF ws[Len(ws)] \in Range(rest) THEN rest ELSE Append(rest, ws[Len(ws)])

\* random.sample(population, k): the arrangements of k distinct places
Samples(population, k) ==
    {SubSeq([j \in 1..k |-> population[f[j]]], 1, k) :
       f \in {g \in [1..k -> 1..Len(population)] : \A a, b \in 1..k : a # b => g[a] # g[b]}}

\* at most two missing-standard clues are picked
MaxMissingPicked == 2

\* "We need 5 words total": remaining_slots = 5 - len(final_output)
ResearchTargetCount == 5

-----------------------------------------------------------------------------
(* research.py: generate_game_content *)

SentWaste == <<"W","a","s","t","e"," ","a","n","d"," ","w","a","s","t","e","w","a","t","e","r"," ","r","o","s","e"," ","1","0","%"," ","t","h","i","s"," ","y","e","a","r",".">>

\* 199 characters
SentWaterLong == <<"A","c","r","o","s","s"," ","e","v","e","r","y"," ","o","n","e"," ","o","f"," ","o","u","r"," ","r","e","g","i","o","n","a","l"," ","o","f","f","i","c","e","s"," ","a","n","d"," ","p","l","a","n","t","s"," ","t","h","e"," ","t","o","t","a","l"," ","v","o","l","u","m","e"," ","o","f"," ","w","a","t","e","r"," ","t","h","a","t"," ","w","e"," ","d","r","e","w"," ","f","r","o","m"," ","r","i","v","e","r","s"," ","a","n","d"," ","f","r","o","m"," ","m","u","n","i","c","i","p","a","l"," ","n","e","t","w","o","r","k","s"," ","w","e","n","t"," ","d","o","w","n"," ","b","y"," ","4","0","%"," ","a","g","a","i","n","s","t"," ","t","h","e"," ","l","e","v","e","l"," ","t","h","a","t"," ","w","e"," ","r","e","p","o","r","t","e","d"," ","t","h","e"," ","y","e","a","r"," ","b","e","f","o","r","e",".">>

SentWaterShort == <<"W","a","t","e","r"," ","u","s","e"," ","f","e","l","l"," ","4","0","%"," ","o","v","e","r","a","l","l",".">>

SentBiodiversity == <<"B","i","o","d","i","v","e","r","s","i","t","y"," ","g","a","i","n","s"," ","r","e","a","c","h","e","d"," ","2","0","%"," ","i","n"," ","2","0","2","3",".">>

SentNetZero == <<"W","e"," ","b","e","l","i","e","v","e"," ","o","u","r"," ","n","e","t","-","z","e","r","o"," ","v","i","s","i","o","n"," ","i","s"," ","u","n","i","q","u","e",".">>

\* 206 characters
SentCarbonLong == <<"O","u","r"," ","c","a","r","b","o","n"," ","f","o","o","t","p","r","i","n","t"," ","a","c","r","o","s","s"," ","t","h","e"," ","o","w","n","e","d"," ","s","i","t","e","s",","," ","t","h","e"," ","l","e","a","s","e","d"," ","s","i","t","e","s"," ","a","n","d"," ","t","h","e"," ","v","e","h","i","c","l","e","s"," ","o","f"," ","t","h","e"," ","c","o","m","p","a","n","y"," ","i","s"," ","p","l","a","n","n","e","d"," ","t","o"," ","f","a","l","l"," ","e","v","e","r","y"," ","y","e","a","r"," ","u","n","t","i","l"," ","2","0","3","0",","," ","i","n"," ","l","i","n","e"," ","w","i","t","h"," ","t","h","e"," ","t","a","r","g","e","t","s"," ","t","h","a","t"," ","t","h","e"," ","b","o","a","r","d"," ","a","p","p","r","o","v","e","d"," ","i","n"," ","t","h","e"," ","s","p","r","i","n","g"," ","s","e","a","s","o","n",".">>

\* names no checklist topic at all
ResearchReportA == SentWaste \o <<"\n">> \o SentWaterLong \o <<"\n">> \o SentWaterShort \o <<"\n">>

\* names biodiversity, which the other report misses
ResearchReportB == SentBiodiversity \o <<"\n">> \o SentNetZero \o <<"\n">> \o SentCarbonLong \o <<"\n">>

ResearchDownloads(i) == {<<>>, IF i = 1 THEN ResearchReportA ELSE ResearchReportB}

InitResearch ==
    /\ pc = "r_fetching"
    /\ taxonomy = <<>>
    /\ raw = <<>>
    /\ clean = <<>>
    /\ clean2 = <<>>
    /\ segs = EmptySegs
    /\ findings = <<>>
    /\ processed = 0
    /\ error = "none"
    /\ url_i = 1
    /\ all_findings = <<>>
    /\ todo = {}
    /\ final_clues = <<>>
    /\ seen_words = {}
    /\ ResIdle
    /\ WebIdle

\* One iteration of "for url in urls"
R_ProcessUrl ==
    /\ pc = "r_fetching"
    /\ url_i <= NumUrls
    /\ \E text \in ResearchDownloads(url_i) :
          /\ raw' = text
          /\ clean' = clean_text(text)
          /\ IF clean_text(text) = <<>>
             THEN UNCHANGED <<all_text, combined_missing_clues>>
             ELSE LET missing_topics == find_missing_standards(clean_text(text))
                  IN  /\ all_text' = all_text \o clean_text(text) \o <<" ">>
                      /\ combined_missing_clues' = combined_missing_clues
                            \o SubSeq([k \in 1..Len(missing_topics) |-> MissingClue(missing_topics[k])],
                                      1, Len(missing_topics))
    /\ url_i' = url_i + 1
    /\ UNCHANGED <<pc, taxonomy, clean2, segs, findings, processed, error,
                   all_findings, todo, final_clues, seen_words, found_clues, final_output>>
    /\ UNCHANGED webVars

\* "if not all_text.strip(): return"
R_NoText ==
    /\ pc = "r_fetching"
    /\ url_i > NumUrls
    /\ Strip(all_text) = <<>>
    /\ pc' = "r_returned"
    /\ UNCHANGED <<auditVars, gameVars, resVars>>
    /\ UNCHANGED webVars

\* split_into_sentences(all_text) and the scan for theme words
R_Scan ==
    /\ pc = "r_fetching"
    /\ url_i > NumUrls
    /\ Strip(all_text) # <<>>
    /\ found_clues' = ScanSentences(research_split_into_sentences(all_text))
    /\ pc' = "r_scanned"
    /\ UNCHANGED <<auditVars, gameVars, all_text, combined_missing_clues, final_output>>
    /\ UNCHANGED webVars

\* "Randomly pick up to 2 missing standards if available"
R_PickMissing ==
    /\ pc = "r_scanned"
    /\ LET missing_words == Keys(SubSeq([k \in 1..Len(combined_missing_clues) |->
                                           combined_missing_clues[k].word],
                                        1, Len(combined_missing_clues)))
           num == IF Len(missing_words) < MaxMissingPicked THEN Len(missing_words)
                  ELSE MaxMissingPicked
       IN  \E picked \in Samples(missing_words, num) :
              final_output' = SubSeq([k \in 1..num |-> MissingClue(picked[k])], 1, num)
    /\ pc' = "r_picked"
    /\ UNCHANGED <<auditVars, gameVars, all_text, combined_missing_clues, found_clues>>
    /\ UNCHANGED webVars

\* the options random.choice draws from: the short ones, or all when none is short
ShortOptions(options) ==
    LET short == SelectSeq(options, LAMBDA opt : Len(opt.sentence) < MaxSentenceLen)
    IN  IF short = <<>> THEN options ELSE short

WordClue(word, opt) ==
    [word |-> word, clue |-> SubWord(opt.sentence, word, 1),
     types |-> JoinTypes(opt.types), original |-> opt.sentence]

\* "Fill the rest with normal words" and print
R_FillWords ==
    /\ pc = "r_picked"
    /\ LET remaining_slots == ResearchTargetCount - Len(final_output)
           places == 1..Len(found_clues)
           available == SubSeq([k \in places |-> k], 1, Len(found_clues))
           selections == IF Len(available) < remaining_slots THEN {available}
                         ELSE Samples(available, remaining_slots)
       IN  \E selected_words \in selections :
           \E pick \in [1..Len(selected_words) -> 1..MaxOf({Len(found_clues[k].options) : k \in places} \cup {1})] :
              /\ \A j \in 1..Len(selected_words) :
                    pick[j] <= Len(ShortOptions(found_clues[selected_words[j]].options))
              /\ final_output' = final_output
                    \o SubSeq([j \in 1..Len(selected_words) |->
                                 WordClue(found_clues[selected_words[j]].word,
                                          ShortOptions(found_clues[selected_words[j]].options)[pick[j]])],
                              1, Len(selected_words))
    /\ pc' = "r_printed"
    /\ UNCHANGED <<auditVars, gameVars, all_text, combined_missing_clues, found_clues>>
    /\ UNCHANGED webVars

NextResearch == R_ProcessUrl \/ R_NoText \/ R_Scan \/ R_PickMissing \/ R_FillWords

SpecResearch == InitResearch /\ [][NextResearch]_vars

-----------------------------------------------------------------------------
(* C1, C2, C8, C9: properties of the selected clues *)

Smaller(a, b) == IF a < b THEN a ELSE b

WordsOf(fs) == {Lower(fs[i].word) : i \in 1..Len(fs)}

NoRepeatedWord(clues) ==
    \A i, j \in 1..Len(clues) : i # j => Lower(clues[i].word) # Lower(clues[j].word)

\* C1: no two selected clues have the same word, ignoring case; in generate_game
\* and in generate_game_content.
C1_UniqueWords ==
    /\ pc \in {"selecting", "printed"} => NoRepeatedWord(final_clues)
    /\ pc = "r_printed" => NoRepeatedWord(final_output)

\* C2: the selection returns min(5, number of distinct anchor words among the
\* findings) clues; in generate_game_content the findings are the missing-standard
\* clues and the theme words found.
C2_CountIsMin ==
    /\ pc = "printed" =>
          Len(final_clues) = Smaller(TargetCount, Cardinality(WordsOf(all_findings)))
    /\ pc = "r_printed" =>
          Len(final_output) =
             Smaller(ResearchTargetCount,
                     Cardinality(WordsOf(combined_missing_clues) \cup WordsOf(found_clues)))

Occurrences(s, w) == Cardinality({i \in 1..Len(s) : OccursAt(s, w, i)})

TrueSubstitution(c) ==
    /\ ~Contains(Lower(c.clue), Lower(c.word))
    /\ (c.original # NotApplicable /\ Occurrences(Lower(c.original), Lower(c.word)) = 1)
          => Occurrences(c.clue, Blank) = 1

\* C8: no rendered clue contains its anchor word anywhere, ignoring case, and a
\* clue made from a sentence that contains the anchor word once contains the blank
\* marker exactly once.
C8_TrueSubstitution ==
    /\ pc = "printed" => \A i \in 1..Len(final_clues) : TrueSubstitution(final_clues[i])
    /\ pc = "r_printed" => \A i \in 1..Len(final_output) : TrueSubstitution(final_output[i])

OptionsOf(word) ==
    UNION {Range(found_clues[k].options) : k \in {j \in 1..Len(found_clues) : found_clues[j].word = word}}

\* C9: a clue longer than the bound (200 characters rendered, 15 words) is selected
\* only when its slot has no candidate within the bound, and no slot stays empty
\* because its candidates are too long.
C9_OversizedOnlyAsFallback ==
    /\ pc = "r_printed" =>
          \A i \in 1..Len(final_output) :
              (final_output[i].original # NotApplicable
                 /\ Len(final_output[i].clue) > MaxSentenceLen) =>
                  \A opt \in OptionsOf(final_output[i].word) :
                      Len(SubWord(opt.sentence, final_output[i].word, 1)) > MaxSentenceLen
    /\ (pc = "printed" /\ Len(final_clues) < TargetCount) =>
          WordsOf(all_findings) \subseteq WordsOf(final_clues)

-----------------------------------------------------------------------------
(* C3: the diversity quota *)

TypesOf(fs) == {fs[i].type : i \in 1..Len(fs)}

\* C3: when the findings hold an OMISSION and a BIAS finding, the selected clues
\* (target count 5) hold at least one OMISSION and at least one BIAS clue.
C3_DiversityQuota ==
    (pc = "printed" /\ {"OMISSION", "BIAS"} \subseteq TypesOf(all_findings)) =>
        {"OMISSION", "BIAS"} \subseteq TypesOf(final_clues)

-----------------------------------------------------------------------------
(* src/main.py: PDFScraper.analyze_gri_compliance, as new_game calls it *)

BiasCode == <<"B","I","A","S">>

\* "for finding in bias_findings[:5]"
MaxBiasListed == 5

\* One iteration of "for gri_code, standard in GRI_STANDARDS.items()": the entry is
\* appended to the list its branch names; title and reason, display strings made
\* from the code and the found keywords, are left out of the entries
ClassifyStandard(acc, standard, pdf_lower) ==
    LET keywords_found == FoundIn(standard.keywords, pdf_lower)
        metrics_found == FoundIn(standard.required_metrics, pdf_lower)
    IN  IF keywords_found = <<>> /\ metrics_found = <<>>
        THEN [acc EXCEPT !.missing_standards = Append(@, [code |-> standard.code])]
        ELSE IF keywords_found # <<>> /\ metrics_found = <<>>
        THEN [acc EXCEPT !.misleading_content =
                 Append(@, [code |-> standard.code, keywords |-> keywords_found])]
        ELSE IF keywords_found # <<>> /\ metrics_found # <<>>
        THEN [acc EXCEPT !.compliant_standards =
                 Append(@, [code |-> standard.code, keywords |-> keywords_found,
                            metrics |-> metrics_found])]
        ELSE acc

RECURSIVE ClassifyLoop(_, _, _, _)
ClassifyLoop(acc, tax, k, pdf_lower) ==
    IF k > Len(tax) THEN acc
    ELSE ClassifyLoop(ClassifyStandard(acc, tax[k], pdf_lower), tax, k + 1, pdf_lower)

\* "Check for bias/fluff words": the pattern around a word that is in the text
\* always matches, so every such word is a bias finding; the first five are listed
BiasEntries(pdf_lower) ==
    LET bias_findings == FoundIn(BIAS_FLUFF_WORDS, pdf_lower)
        n == IF Len(bias_findings) < MaxBiasListed THEN Len(bias_findings) ELSE MaxBiasListed
    IN  SubSeq([j \in 1..n |-> [code |-> BiasCode, word |-> bias_findings[j]]], 1, n)

analyze_gri_compliance(pdf_content, tax) ==
    LET pdf_lower == Lower(pdf_content)
        classified == ClassifyLoop(EmptyAnalysis, tax, 1, pdf_lower)
    IN  [classified EXCEPT !.misleading_content = @ \o BiasEntries(pdf_lower)]

InitCompliance ==
    /\ pc = "w_downloaded"
    /\ raw \in AuditTexts
    /\ taxonomy \in Taxonomies
    /\ clean = <<>>
    /\ clean2 = <<>>
    /\ segs = EmptySegs
    /\ findings = <<>>
    /\ processed = 0
    /\ error = "none"
    /\ GameIdle
    /\ ResIdle
    /\ WebIdle

\* new_game: "if not pdf_content: return jsonify({'error': ...}), 500"
W_NoContent ==
    /\ pc = "w_downloaded"
    /\ raw = <<>>
    /\ pc' = "w_failed"
    /\ error' = "Failed to extract PDF content"
    /\ UNCHANGED <<taxonomy, raw, clean, clean2, segs, findings, processed, gameVars, resVars, webVars>>

\* new_game: cleaned_content = scraper.clean_text(pdf_content)
W_CleanText ==
    /\ pc = "w_downloaded"
    /\ raw # <<>>
    /\ clean' = clean_text(raw)
    /\ pc' = "w_cleaned"
    /\ UNCHANGED <<taxonomy, raw, clean2, segs, findings, processed, error, gameVars, resVars, webVars>>

\* new_game: gri_analysis = scraper.analyze_gri_compliance(cleaned_content)
W_Analyze ==
    /\ pc = "w_cleaned"
    /\ analysis' = analyze_gri_compliance(clean, taxonomy)
    /\ pc' = "w_analyzed"
    /\ UNCHANGED <<auditVars, gameVars, resVars, used_pdfs, selected, calls>>

NextCompliance == W_NoContent \/ W_CleanText \/ W_Analyze

SpecCompliance == InitCompliance /\ [][NextCompliance]_vars

-----------------------------------------------------------------------------
(* C14 *)

ListedIn(list, code) == Cardinality({i \in 1..Len(list) : list[i].code = code})

\* C14: every standard is in exactly one of missing_standards, misleading_content
\* and compliant_standards: in compliant_standards when a keyword and a metric
\* occur in the text, in misleading_content when a keyword occurs without a metric,
\* in missing_standards otherwise, also when only a metric occurs.  (Stated for
\* the well-formed taxonomy.)
C14_OneVerdictPerStandard ==
    (pc = "w_analyzed" /\ ~Malformed(taxonomy)) =>
        \A k \in 1..Len(taxonomy) :
            LET verdict == CoverageVerdict(taxonomy[k], Lower(clean))
                missing == ListedIn(analysis.missing_standards, taxonomy[k].code)
                misleading == ListedIn(analysis.misleading_content, taxonomy[k].code)
                compliant == ListedIn(analysis.compliant_standards, taxonomy[k].code)
            IN  /\ missing + misleading + compliant = 1
                /\ verdict = "NONE" => missing = 1
                /\ verdict = "KEYWORD_ONLY" => misleading = 1
                /\ verdict = "KEYWORD_AND_METRIC" => compliant = 1

-----------------------------------------------------------------------------
(* src/main.py: get_next_pdf over the persisted game state *)

\* the five report urls, by the company each belongs to
PDF_URLS == <<"deloitte", "pwc", "ey", "nestle", "shein">>

\* calls of get_next_pdf that are followed
MaxCalls == 11

\* The plausible slip: the choice is made among all urls
Unused_all(used) == PDF_URLS

\* unused = [pdf for pdf in PDF_URLS if pdf not in state['used_pdfs']]
Unused(used) == SelectSeq(PDF_URLS, LAMBDA pdf : pdf \notin Range(used))

\* state['used_pdfs'] after "if len(state['used_pdfs']) >= len(PDF_URLS): reset"
AfterReset(used) == IF Len(used) >= Len(PDF_URLS) THEN <<>> ELSE used

InitPdf ==
    /\ pc = "p_idle"
    /\ taxonomy = <<>>
    /\ raw = <<>>
    /\ clean = <<>>
    /\ clean2 = <<>>
    /\ segs = EmptySegs
    /\ findings = <<>>
    /\ processed = 0
    /\ error = "none"
    /\ GameIdle
    /\ ResIdle
    /\ WebIdle

\* One call of get_next_pdf: load_game_state (the default state when the file is
\* missing), reset when every url is used, random.choice(unused), append and
\* save_game_state; random.choice of an empty list raises IndexError
GetNextPdf ==
    /\ pc = "p_idle"
    /\ calls < MaxCalls
    /\ calls' = calls + 1
    /\ LET unused == Unused(AfterReset(used_pdfs))
       IN  IF unused = <<>>
           THEN /\ pc' = "p_raised"
                /\ error' = "IndexError"
                /\ UNCHANGED <<used_pdfs, selected>>
           ELSE /\ \E i \in 1..Len(unused) :
                      /\ selected' = unused[i]
                      /\ used_pdfs' = Append(AfterReset(used_pdfs), unused[i])
                /\ UNCHANGED <<pc, error>>
    /\ UNCHANGED <<taxonomy, raw, clean, clean2, segs, findings, processed,
                   gameVars, resVars, analysis>>

NextPdf == GetNextPdf

SpecPdf == InitPdf /\ [][NextPdf]_vars

-----------------------------------------------------------------------------
(* C15 *)

NoRepeat(s) == \A i, j \in 1..Len(s) : i # j => s[i] # s[j]

UsedPdfsInv ==
    /\ error = "none"
    /\ NoRepeat(used_pdfs)
    /\ Range(used_pdfs) \subseteq Range(PDF_URLS)
    /\ Len(used_pdfs) <= Len(PDF_URLS)
    /\ calls > 0 => selected = used_pdfs[Len(used_pdfs)]
    /\ (calls > 0 /\ calls % Len(PDF_URLS) = 0) =>
          (Len(used_pdfs) = Len(PDF_URLS) /\ Range(used_pdfs) = Range(PDF_URLS))

CallStep ==
    calls' = calls + 1 =>
        IF Len(used_pdfs') <= Len(used_pdfs)
        THEN Range(used_pdfs) = Range(PDF_URLS) /\ used_pdfs' = <<selected'>>
        ELSE selected' \notin Range(used_pdfs) /\ used_pdfs' = Append(used_pdfs, selected')

\* C15: from the default game state and under sequential calls, get_next_pdf
\* never returns a url that is in used_pdfs since the last reset: used_pdfs has no
\* duplicate, holds only urls of PDF_URLS and at most all of them; the calls
\* between two resets return every url exactly once; and used_pdfs is cleared
\* only when it holds all urls.
C15_NoRepeatUntilReset == [](pc = "p_idle" => UsedPdfsInv) /\ [][pc = "p_idle" => CallStep]_vars

\* C15 witness: the second window of len(PDF_URLS) calls is complete
C15_Witness ==
    /\ pc = "p_idle"
    /\ calls = 2 * Len(PDF_URLS)
    /\ Len(used_pdfs) = Len(PDF_URLS)

-----------------------------------------------------------------------------
(* Normalizer run: clean_text applied once and twice, then segmentation *)

\* longest whitespace/punctuation gap enumerated around the sentences
MaxGap == 2

GapAlphabet == {" ", "\n", "a", "."}

Gaps == UNION {[1..k -> GapAlphabet] : k \in 0..MaxGap}

NormTexts ==
    {g \o h : g \in Gaps, h \in Gaps}
    \cup {g \o FragWaterFact \o h : g \in Gaps, h \in Gaps}
    \cup {FragProud \o g \o FragWaterFact \o h : g \in Gaps, h \in Gaps}

InitNorm ==
    /\ pc = "raw"
    /\ raw \in NormTexts
    /\ taxonomy = <<>>
    /\ clean = <<>>
    /\ clean2 = <<>>
    /\ segs = EmptySegs
    /\ findings = <<>>
    /\ processed = 0
    /\ error = "none"
    /\ GameIdle
    /\ ResIdle
    /\ WebIdle

Normalize ==
    /\ pc = "raw"
    /\ clean' = clean_text(raw)
    /\ pc' = "once"
    /\ UNCHANGED <<taxonomy, raw, clean2, segs, findings, processed, error, gameVars, resVars>>
    /\ UNCHANGED webVars

NormalizeAgain ==
    /\ pc = "once"
    /\ clean2' = clean_text(clean)
    /\ pc' = "twice"
    /\ UNCHANGED <<taxonomy, raw, clean, segs, findings, processed, error, gameVars, resVars>>
    /\ UNCHANGED webVars

Segment ==
    /\ pc = "twice"
    /\ segs' = [a1 |-> split_into_sentences(clean),
                a2 |-> split_into_sentences(clean2),
                r1 |-> research_split_into_sentences(clean),
                r2 |-> research_split_into_sentences(clean2)]
    /\ pc' = "segmented"
    /\ UNCHANGED <<taxonomy, raw, clean, clean2, findings, processed, error, gameVars, resVars>>
    /\ UNCHANGED webVars

NextNorm == Normalize \/ NormalizeAgain \/ Segment

SpecNorm == InitNorm /\ [][NextNorm]_vars

-----------------------------------------------------------------------------
(* C10 *)

NoEdgeWhitespace(s) == s = <<>> \/ (~IsSpace(s[1]) /\ ~IsSpace(s[Len(s)]))

NoWhitespaceRun(s) == \A i \in 1..(Len(s) - 1) : ~(IsSpace(s[i]) /\ IsSpace(s[i + 1]))

\* C10: clean_text is idempotent: cleaning the cleaned text changes nothing, the
\* cleaned text has no leading or trailing whitespace and no run of two or more
\* whitespace characters, and both split_into_sentences variants give the same
\* sentences on the once- and the twice-cleaned text.
C10_NormalizeIdempotent ==
    /\ pc \in {"once", "twice", "segmented"} =>
          NoEdgeWhitespace(clean) /\ NoWhitespaceRun(clean)
    /\ pc \in {"twice", "segmented"} => clean2 = clean
    /\ pc = "segmented" => segs.a2 = segs.a1 /\ segs.r2 = segs.r1

\* C10 witness: a raw text with edge whitespace and a whitespace run between two
\* qualifying sentences has been cleaned twice and segmented into both sentences
C10_Witness ==
    /\ pc = "segmented"
    /\ Len(raw) > Len(clean) + 2
    /\ IsSpace(raw[Len(raw)])
    /\ Len(segs.a1) = 2
    /\ Len(segs.r1) = 2

=============================================================================
